---- MODULE Spec2Model ----
(***************************************************************************)
(* Page content extraction: the DOM snapshot extractor                     *)
(* (src/unnamed/part_000) and the Markdown renderer                        *)
(* (src/src/tools/convert_to_markdown.js).                                 *)
(*                                                                         *)
(* A document is a sequence of DOM nodes in document (pre-)order; node i   *)
(* names its parent by index (0 for the root, which is document.body).     *)
(* The empty sequence is a document without a body.  JavaScript strings    *)
(* are sequences of one-character strings, so trimming, splitting and the  *)
(* newline clean-up are computed character by character.                   *)
(***************************************************************************)
EXTENDS Integers, Sequences, FiniteSets, TLC

VARIABLES doc, pc, snapshot, result, stack, acc

vars == <<doc, pc, snapshot, result, stack, acc>>

(***************************************************************************)
(* Bounds of the model.                                                    *)
(***************************************************************************)
MaxTreeNodes == 4
MaxDepthArg == 2
MaxStyledNodes == 3
MaxTableNodes == 8
MaxListNodes == 6
MaxFlatNodes == 7
MaxWalkNodes == 4

(***************************************************************************)
(* JavaScript values.                                                      *)
(***************************************************************************)
\* null / undefined / an absent optional field
None == <<>>

Some(v) == <<v>>

\* extractElement's default argument, part_000:16
DefaultMaxDepth == 10

Min(a, b) == IF a <= b THEN a ELSE b

(***************************************************************************)
(* Strings.                                                                *)
(***************************************************************************)
Str1(c) == <<c>>

\* the character U+0060, which a TLA+ string literal cannot hold
Backquote == "BACKQUOTE"

\* the characters String.prototype.trim removes (those the model's alphabet has)
IsWhitespace(c) == c \in {" ", "\n", "\t"}

RECURSIVE TrimStart(_)
TrimStart(s) ==
  IF s = <<>> THEN <<>>
  ELSE IF IsWhitespace(Head(s)) THEN TrimStart(Tail(s))
  ELSE s

RECURSIVE TrimEnd(_)
TrimEnd(s) ==
  IF s = <<>> THEN <<>>
  ELSE IF IsWhitespace(s[Len(s)]) THEN TrimEnd(SubSeq(s, 1, Len(s) - 1))
  ELSE s

\* String.prototype.trim
Trim(s) == TrimEnd(TrimStart(s))

\* Array.prototype.join
RECURSIVE Join(_, _)
Join(parts, sep) ==
  IF parts = <<>> THEN <<>>
  ELSE IF Len(parts) = 1 THEN parts[1]
  ELSE parts[1] \o sep \o Join(Tail(parts), sep)

\* concatenation of a sequence of strings
RECURSIVE Concat(_)
Concat(parts) ==
  IF parts = <<>> THEN <<>> ELSE Head(parts) \o Concat(Tail(parts))

\* String.prototype.toLowerCase on the tag names the model uses
LowerTable ==
  [BODY |-> "body", DIV |-> "div", SPAN |-> "span", IFRAME |-> "iframe",
   SCRIPT |-> "script", STYLE |-> "style", NOSCRIPT |-> "noscript",
   META |-> "meta", LINK |-> "link",
   H1 |-> "h1", H2 |-> "h2", H3 |-> "h3", H4 |-> "h4", H5 |-> "h5",
   H6 |-> "h6", P |-> "p", BR |-> "br", HR |-> "hr", STRONG |-> "strong",
   B |-> "b", EM |-> "em", I |-> "i", CODE |-> "code", PRE |-> "pre",
   A |-> "a", IMG |-> "img", UL |-> "ul", OL |-> "ol", LI |-> "li",
   BLOCKQUOTE |-> "blockquote", TABLE |-> "table", TR |-> "tr",
   TH |-> "th", TD |-> "td", ARTICLE |-> "article", SECTION |-> "section",
   MAIN |-> "main", FOO |-> "foo"]

toLowerCase(s) == IF s \in DOMAIN LowerTable THEN LowerTable[s] ELSE s

(***************************************************************************)
(* The document tree (the DOM interface the two scripts read).             *)
(***************************************************************************)
ElementNode(tag) ==
  [parent |-> 0, nodeType |-> "element", tagName |-> tag, data |-> <<>>,
   attributes |-> <<>>, display |-> "block", visibility |-> "visible",
   opacity |-> "1", width |-> 2, height |-> 3]

TextNode(s) ==
  [parent |-> 0, nodeType |-> "text", tagName |-> "", data |-> s,
   attributes |-> <<>>, display |-> "", visibility |-> "",
   opacity |-> "", width |-> 0, height |-> 0]

CommentNode(s) == [TextNode(s) EXCEPT !.nodeType = "comment"]

Nodes == 1..Len(doc)

IsElement(n) == doc[n].nodeType = "element"

IsText(n) == doc[n].nodeType = "text"

\* document.body
Body == IF doc = <<>> THEN 0 ELSE 1

\* Node.childNodes, in document order
childNodes(e) == SelectSeq([i \in 1..Len(doc) |-> i], LAMBDA n : doc[n].parent = e)

\* Element.children: the element children only
children(e) == SelectSeq(childNodes(e), IsElement)

\* Node.parentElement
parentElement(n) == doc[n].parent

\* Element.tagName.toLowerCase()
tagOf(n) == toLowerCase(doc[n].tagName)

RECURSIVE DepthOf(_)
DepthOf(n) == IF doc[n].parent = 0 THEN 0 ELSE 1 + DepthOf(doc[n].parent)

RECURSIVE IsAncestor(_, _)
IsAncestor(a, n) ==
  /\ doc[n].parent # 0
  /\ (doc[n].parent = a \/ IsAncestor(a, doc[n].parent))

\* the descendants of e, in document order
Descendants(e) == SelectSeq([i \in 1..Len(doc) |-> i], LAMBDA n : IsAncestor(e, n))

(***************************************************************************)
(* Bounded families of documents: every ordered tree of n nodes over a     *)
(* vocabulary of node kinds (n = 0: the document without a body).  Nodes   *)
(* are numbered in pre-order, so a new node hangs below the last node or   *)
(* one of its ancestors; only elements have children.                      *)
(***************************************************************************)
RECURSIVE RightPath(_, _)
RightPath(d, n) ==
  IF n = 0 THEN {}
  ELSE (IF d[n].nodeType = "element" THEN {n} ELSE {}) \cup RightPath(d, d[n].parent)

\* allowed[t]: the node kinds that may hang below an element with tagName t
KindsOf(allowed) == UNION { allowed[t] : t \in DOMAIN allowed }

RECURSIVE TreesOfSize(_, _, _)
TreesOfSize(roots, allowed, n) ==
  IF n = 0 THEN {<<>>}
  ELSE IF n = 1 THEN {<<r>> : r \in roots}
  ELSE { Append(x[1], [x[3] EXCEPT !.parent = x[2]]) :
           x \in { y \in TreesOfSize(roots, allowed, n - 1) \X (1..(n - 1)) \X KindsOf(allowed) :
                     /\ y[2] \in RightPath(y[1], n - 1)
                     /\ y[3] \in allowed[y[1][y[2]].tagName] } }

\* the same vocabulary below every element
Uniform(tags, kinds) == [t \in tags |-> kinds]

\* each element carries its node index as its id attribute
WithIds(d) ==
  [i \in 1..Len(d) |->
     IF d[i].nodeType = "element"
       THEN [d[i] EXCEPT !.attributes = ("id" :> i)]
       ELSE d[i]]

(***************************************************************************)
(* DOM snapshot extractor, src/unnamed/part_000.                           *)
(***************************************************************************)
\* window.getComputedStyle(element)
getComputedStyle(e) ==
  [display |-> doc[e].display, visibility |-> doc[e].visibility,
   opacity |-> doc[e].opacity]

\* element.getBoundingClientRect()
getBoundingClientRect(e) ==
  [x |-> 0, y |-> 0, width |-> doc[e].width, height |-> doc[e].height]

\* the style checks without the area check
isVisible_StyleOnly(e) ==
  IF e = 0 THEN FALSE
  ELSE LET style == getComputedStyle(e)
       IN ~ (\/ style.display = "none"
             \/ style.visibility = "hidden"
             \/ style.opacity = "0")

isVisible(e) ==
  IF e = 0 THEN FALSE
  ELSE LET style == getComputedStyle(e)
           rect == getBoundingClientRect(e)
       IN IF \/ style.display = "none"
             \/ style.visibility = "hidden"
             \/ style.opacity = "0"
            THEN FALSE
            ELSE rect.width > 0 /\ rect.height > 0

\* the exclusion list without its last entry
ExtractorSkipTags_NoLink == {"script", "style", "noscript", "meta"}

\* part_000:22
ExtractorSkipTags == {"script", "style", "noscript", "meta", "link"}

\* part_000:53-57: the direct text, each piece trimmed, joined by one space
directText(e) ==
  LET texts == SelectSeq(childNodes(e), IsText)
      trimmed == [i \in 1..Len(texts) |-> Trim(doc[texts[i]].data)]
      nonEmpty == SelectSeq(trimmed, LAMBDA t : Len(t) > 0)
  IN Join(nonEmpty, Str1(" "))

\* the depth test cutting one level early
beyondDepth_OffByOne(depth, maxDepth) == depth >= maxDepth

\* part_000:17
beyondDepth(depth, maxDepth) == depth > maxDepth

RECURSIVE extractElement(_, _, _)
RECURSIVE extractChildren(_, _, _)
\* part_000:64-69: the loop over element.children
extractChildren(kids, depth, maxDepth) ==
  IF kids = <<>> THEN <<>>
  ELSE extractElement(Head(kids), depth + 1, maxDepth)
         \o extractChildren(Tail(kids), depth, maxDepth)

\* None for null, Some(node) otherwise
extractElement(element, depth, maxDepth) ==
  IF beyondDepth(depth, maxDepth) THEN None
  ELSE LET tagName == toLowerCase(doc[element].tagName) IN
    IF tagName \in ExtractorSkipTags THEN None
    ELSE LET visible == isVisible(element)
             rect == getBoundingClientRect(element)
             textContent == directText(element)
         IN Some([tag_name |-> tagName,
                  attributes |-> doc[element].attributes,
                  text_content |-> IF textContent # <<>> THEN Some(textContent) ELSE None,
                  children |-> extractChildren(children(element), depth, maxDepth),
                  is_visible |-> visible,
                  is_interactive |-> FALSE,
                  bounding_box |-> IF visible THEN Some(rect) ELSE None])

\* part_000:77: the node returned for a document without a body
FallbackNode ==
  [tag_name |-> "body", attributes |-> <<>>, children |-> <<>>, is_visible |-> FALSE]

\* part_000:74-80 with the depth limit as the caller's argument; None for null
extractDom(maxDepth) ==
  IF Body = 0 THEN Some(FallbackNode) ELSE extractElement(Body, 0, maxDepth)

(***************************************************************************)
(* More of the DOM and of JavaScript strings, as the renderer uses them.   *)
(***************************************************************************)
\* Node.textContent: the data of a text node, the concatenated text of all
\* descendant text nodes of an element
textContent(n) ==
  IF IsText(n) THEN doc[n].data
  ELSE IF ~ IsElement(n) THEN doc[n].data
  ELSE Concat([i \in 1..Len(SelectSeq(Descendants(n), IsText)) |->
                 doc[SelectSeq(Descendants(n), IsText)[i]].data])

\* Element.querySelectorAll with a type selector list
querySelectorAll(e, tags) ==
  SelectSeq(Descendants(e), LAMBDA n : IsElement(n) /\ tagOf(n) \in tags)

\* Element.querySelector: the first match, or null
querySelector(e, tags) ==
  IF querySelectorAll(e, tags) = <<>> THEN 0 ELSE querySelectorAll(e, tags)[1]

\* Element.getAttribute(name) || ''
getAttributeOrEmpty(e, name) ==
  IF name \in DOMAIN doc[e].attributes THEN doc[e].attributes[name] ELSE <<>>

Digits == <<"0", "1", "2", "3", "4", "5", "6", "7", "8", "9">>

\* Number to string, as in (index + 1) + '. '
RECURSIVE NumberToString(_)
NumberToString(k) ==
  IF k < 10 THEN <<Digits[k + 1]>>
  ELSE NumberToString(k \div 10) \o <<Digits[(k % 10) + 1]>>

\* String.prototype.split on one separator character
RECURSIVE Split(_, _)
Split(s, sep) ==
  IF \A i \in 1..Len(s) : s[i] # sep THEN <<s>>
  ELSE LET k == CHOOSE i \in 1..Len(s) : s[i] = sep /\ \A j \in 1..(i - 1) : s[j] # sep
       IN <<SubSeq(s, 1, k - 1)>> \o Split(SubSeq(s, k + 1, Len(s)), sep)

\* length of the run of newlines s starts with
RECURSIVE NewlineRun(_)
NewlineRun(s) ==
  IF s = <<>> \/ Head(s) # "\n" THEN 0 ELSE 1 + NewlineRun(Tail(s))

\* the clean-up that misses a run of exactly three newlines
RECURSIVE collapseNewlines_FourOrMore(_)
collapseNewlines_FourOrMore(s) ==
  IF s = <<>> THEN <<>>
  ELSE LET run == NewlineRun(s) IN
    IF run >= 4 THEN <<"\n", "\n">> \o collapseNewlines_FourOrMore(SubSeq(s, run + 1, Len(s)))
    ELSE IF run >= 1 THEN SubSeq(s, 1, run) \o collapseNewlines_FourOrMore(SubSeq(s, run + 1, Len(s)))
    ELSE <<Head(s)>> \o collapseNewlines_FourOrMore(Tail(s))

\* content.replace(/\n{3,}/g, '\n\n'), convert_to_markdown.js:176
RECURSIVE collapseNewlines(_)
collapseNewlines(s) ==
  IF s = <<>> THEN <<>>
  ELSE LET run == NewlineRun(s) IN
    IF run >= 3 THEN <<"\n", "\n">> \o collapseNewlines(SubSeq(s, run + 1, Len(s)))
    ELSE IF run >= 1 THEN SubSeq(s, 1, run) \o collapseNewlines(SubSeq(s, run + 1, Len(s)))
    ELSE <<Head(s)>> \o collapseNewlines(Tail(s))

(***************************************************************************)
(* Markdown renderer, src/src/tools/convert_to_markdown.js.                *)
(***************************************************************************)
\* convert_to_markdown.js:11
RendererSkipTags == {"script", "style", "noscript", "meta", "link", "iframe"}

\* the flattening helper passing every child element through
FlattenSkipTags_None == {}

\* convert_to_markdown.js:134
FlattenSkipTags == {"script", "style", "noscript"}

RECURSIVE getTextContent(_)
RECURSIVE flattenChildren(_)
\* convert_to_markdown.js:129-138: the loop over element.childNodes
flattenChildren(kids) ==
  IF kids = <<>> THEN <<>>
  ELSE LET child == Head(kids)
           piece == IF IsText(child) THEN doc[child].data
                    ELSE IF IsElement(child) /\ tagOf(child) \notin FlattenSkipTags
                      THEN getTextContent(child)
                    ELSE <<>>
       IN piece \o flattenChildren(Tail(kids))

getTextContent(element) ==
  IF IsText(element) THEN Trim(doc[element].data)
  ELSE Trim(flattenChildren(childNodes(element)))

\* the separator emitted after every row
separatorWanted_EveryRow(rowIndex, hasHeader) == hasHeader

\* convert_to_markdown.js:155 (rowIndex counted from 0)
separatorWanted(rowIndex, hasHeader) == rowIndex = 0 /\ hasHeader

\* convert_to_markdown.js:150-157: what one row adds to the table's markdown
tableRow(row, rowIndex, hasHeader) ==
  LET cells == querySelectorAll(row, {"th", "td"})
      cellTexts == [i \in 1..Len(cells) |-> getTextContent(cells[i])]
      dashes == [i \in 1..Len(cells) |-> <<"-", "-", "-">>]
  IN <<"|", " ">> \o Join(cellTexts, <<" ", "|", " ">>) \o <<" ", "|", "\n">>
       \o (IF separatorWanted(rowIndex, hasHeader)
             THEN <<"|", " ">> \o Join(dashes, <<" ", "|", " ">>) \o <<" ", "|", "\n">>
             ELSE <<>>)

convertTable(table) ==
  LET rows == querySelectorAll(table, {"tr"})
      hasHeader == querySelector(table, {"th"}) # 0
  IN IF Len(rows) = 0 THEN <<>>
     ELSE Concat([i \in 1..Len(rows) |-> tableRow(rows[i], i - 1, hasHeader)])

\* convert_to_markdown.js:87
listPrefix(isOrdered, index) ==
  IF isOrdered THEN NumberToString(index + 1) \o <<".", " ">> ELSE <<"-", " ">>

\* convert_to_markdown.js:83-91
convertList(element, tagName) ==
  LET listItems == children(element)
      isOrdered == tagName = "ol"
  IN Concat([k \in 1..Len(listItems) |->
               IF tagOf(listItems[k]) = "li"
                 THEN listPrefix(isOrdered, k - 1) \o getTextContent(listItems[k]) \o <<"\n">>
                 ELSE <<>>])
       \o <<"\n">>

\* convert_to_markdown.js:97-98
convertBlockquote(element) ==
  LET lines == Split(getTextContent(element), "\n")
  IN Join([i \in 1..Len(lines) |-> <<">", " ">> \o lines[i]], <<"\n">>) \o <<"\n", "\n">>

\* convert_to_markdown.js:67-69
convertPre(element) ==
  LET codeElement == querySelector(element, {"code"})
      code == IF codeElement # 0 THEN textContent(codeElement) ELSE textContent(element)
  IN <<"\n", Backquote, Backquote, Backquote, "\n">> \o code \o <<"\n", Backquote, Backquote, Backquote, "\n", "\n">>

HeadingLevel ==
  [h1 |-> 1, h2 |-> 2, h3 |-> 3, h4 |-> 4, h5 |-> 5, h6 |-> 6]

Hashes(level) == [i \in 1..level |-> "#"]

\* the switch without its default branch
recursesIntoChildren_KnownOnly(tagName) ==
  tagName \in {"div", "article", "section", "main", "body"}

\* the tags whose case of the switch is the loop over childNodes:
\* convert_to_markdown.js:103-117, the five containers and the default
recursesIntoChildren(tagName) ==
  tagName \notin
    (DOMAIN HeadingLevel \cup
     {"p", "br", "hr", "strong", "b", "em", "i", "code", "pre", "a", "img",
      "ul", "ol", "li", "blockquote", "table"})

\* the cases of the switch that do not call htmlToMarkdown again,
\* convert_to_markdown.js:25-102
convertLeaf(element, tagName) ==
  IF tagName \in DOMAIN HeadingLevel
    THEN <<"\n">> \o Hashes(HeadingLevel[tagName]) \o <<" ">>
           \o getTextContent(element) \o <<"\n", "\n">>
  ELSE IF tagName = "p" THEN getTextContent(element) \o <<"\n", "\n">>
  ELSE IF tagName = "br" THEN <<"\n">>
  ELSE IF tagName = "hr" THEN <<"\n", "-", "-", "-", "\n", "\n">>
  ELSE IF tagName \in {"strong", "b"}
    THEN <<"*", "*">> \o getTextContent(element) \o <<"*", "*">>
  ELSE IF tagName \in {"em", "i"}
    THEN <<"*">> \o getTextContent(element) \o <<"*">>
  ELSE IF tagName = "code"
    THEN IF parentElement(element) # 0 /\ tagOf(parentElement(element)) = "pre"
           THEN <<>>
           ELSE <<Backquote>> \o getTextContent(element) \o <<Backquote>>
  ELSE IF tagName = "pre" THEN convertPre(element)
  ELSE IF tagName = "a"
    THEN <<"[">> \o getTextContent(element) \o <<"]", "(">>
           \o getAttributeOrEmpty(element, "href") \o <<")">>
  ELSE IF tagName = "img"
    THEN <<"!", "[">> \o getAttributeOrEmpty(element, "alt") \o <<"]", "(">>
           \o getAttributeOrEmpty(element, "src") \o <<")">>
  ELSE IF tagName \in {"ul", "ol"} THEN convertList(element, tagName)
  ELSE IF tagName = "li" THEN <<>>
  ELSE IF tagName = "blockquote" THEN convertBlockquote(element)
  ELSE \* "table"
    convertTable(element) \o <<"\n", "\n">>

\* element.tagName ? element.tagName.toLowerCase() : ''
tagNameOrEmpty(element) ==
  IF IsElement(element) THEN toLowerCase(doc[element].tagName) ELSE ""

\* convert_to_markdown.js:6-19: the value returned before the switch, if any
earlyReturn(element) ==
  IF element = 0 THEN Some(<<>>)
  ELSE IF tagNameOrEmpty(element) \in RendererSkipTags THEN Some(<<>>)
  ELSE IF IsText(element)
    THEN LET text == Trim(doc[element].data)
         IN Some(IF text # <<>> THEN text \o <<" ">> ELSE <<>>)
  ELSE None

RECURSIVE htmlToMarkdown(_)
RECURSIVE renderChildren(_)
\* convert_to_markdown.js:109-111 and 115-117: markdown += htmlToMarkdown(child)
renderChildren(kids) ==
  IF kids = <<>> THEN <<>>
  ELSE htmlToMarkdown(Head(kids)) \o renderChildren(Tail(kids))

htmlToMarkdown(element) ==
  IF earlyReturn(element) # None THEN earlyReturn(element)[1]
  ELSE IF recursesIntoChildren(tagNameOrEmpty(element))
    THEN renderChildren(childNodes(element))
  ELSE convertLeaf(element, tagNameOrEmpty(element))

\* document.title and window.location.href
DocumentTitle == <<"T">>

LocationHref == <<"u">>

\* document.querySelector('[role="main"]')
RoleMain ==
  LET hits == SelectSeq([i \in 1..Len(doc) |-> i],
                        LAMBDA n : /\ IsElement(n)
                                   /\ "role" \in DOMAIN doc[n].attributes
                                   /\ doc[n].attributes["role"] = <<"m", "a", "i", "n">>)
  IN IF hits = <<>> THEN 0 ELSE hits[1]

\* document.querySelector with a type selector: the first match in the document
documentQuerySelector(tag) ==
  LET hits == SelectSeq([i \in 1..Len(doc) |-> i],
                        LAMBDA n : IsElement(n) /\ tagOf(n) = tag)
  IN IF hits = <<>> THEN 0 ELSE hits[1]

\* convert_to_markdown.js:167-170
contentElement ==
  IF documentQuerySelector("article") # 0 THEN documentQuerySelector("article")
  ELSE IF documentQuerySelector("main") # 0 THEN documentQuerySelector("main")
  ELSE IF RoleMain # 0 THEN RoleMain
  ELSE Body

\* convert_to_markdown.js:176
cleanUp(content) == Trim(collapseNewlines(content))

\* convert_to_markdown.js:163-182
convertPage ==
  [title |-> DocumentTitle,
   content |-> cleanUp(htmlToMarkdown(contentElement)),
   url |-> LocationHref]

(***************************************************************************)
(* Extractor runs.                                                         *)
(***************************************************************************)
\* non-content elements are display:none by default; a script can be styled visible
ExtractTagKinds ==
  {ElementNode(t) : t \in {"DIV", "IFRAME", "SCRIPT"}}
    \cup {[ElementNode(t) EXCEPT !.display = "none", !.width = 0, !.height = 0] :
            t \in {"DIV", "STYLE", "NOSCRIPT", "META", "LINK"}}
    \cup {TextNode(<<" ", "a", " ">>)}

ExtractTags == {"BODY", "DIV", "IFRAME", "SCRIPT", "STYLE", "NOSCRIPT", "META", "LINK"}

ExtractDocs(n) ==
  { WithIds(d) : d \in TreesOfSize({ElementNode("BODY")},
                                 Uniform(ExtractTags, ExtractTagKinds), n) }

DepthArgs == (0..MaxDepthArg) \cup {DefaultMaxDepth}

Idle ==
  /\ pc = "loaded"
  /\ snapshot = None
  /\ result = None
  /\ stack = <<>>
  /\ acc = <<>>

InitExtract ==
  /\ \E n \in 0..MaxTreeNodes : doc \in ExtractDocs(n)
  /\ Idle

\* one evaluation of the extractor script
Extract(maxDepth) ==
  /\ pc = "loaded"
  /\ snapshot' = Some([maxDepth |-> maxDepth, root |-> extractDom(maxDepth)])
  /\ pc' = "extracted"
  /\ UNCHANGED <<doc, result, stack, acc>>

NextExtract == \E maxDepth \in DepthArgs : Extract(maxDepth)

SpecExtract == InitExtract /\ [][NextExtract]_vars

(***************************************************************************)
(* Renderer runs.                                                          *)
(***************************************************************************)
\* one evaluation of the renderer script
Render ==
  /\ pc = "loaded"
  /\ result' = Some(convertPage)
  /\ pc' = "rendered"
  /\ UNCHANGED <<doc, snapshot, stack, acc>>

NextRender == Render

Rendered == pc = "rendered"

(***************************************************************************)
(* The renderer call by call: the stack holds one frame for each active    *)
(* call of htmlToMarkdown, with the element, the position i of the loop    *)
(* over its childNodes (0 before the switch) and the markdown built so     *)
(* far; acc receives what the outermost call returns.                      *)
(***************************************************************************)
Frame(element) == [element |-> element, i |-> 0, markdown |-> <<>>]

Top == stack[Len(stack)]

\* the top call returns value: its caller appends it and moves to the next child
Return(value) ==
  IF Len(stack) = 1
    THEN /\ stack' = <<>>
         /\ acc' = value
         /\ pc' = "returned"
    ELSE /\ stack' = [SubSeq(stack, 1, Len(stack) - 1) EXCEPT
                        ![Len(stack) - 1].markdown = @ \o value,
                        ![Len(stack) - 1].i = @ + 1]
         /\ UNCHANGED <<acc, pc>>

\* convert_to_markdown.js:167-173: select the content root and call htmlToMarkdown
Begin ==
  /\ pc = "loaded"
  /\ stack' = <<Frame(contentElement)>>
  /\ pc' = "walking"
  /\ UNCHANGED <<doc, snapshot, result, acc>>

\* convert_to_markdown.js:6-19: null, a skipped tag or a text node
ReturnEarly ==
  /\ pc = "walking"
  /\ Top.i = 0
  /\ earlyReturn(Top.element) # None
  /\ Return(earlyReturn(Top.element)[1])
  /\ UNCHANGED <<doc, snapshot, result>>

\* convert_to_markdown.js:25-102: a case that does not recurse
ReturnLeaf ==
  /\ pc = "walking"
  /\ Top.i = 0
  /\ earlyReturn(Top.element) = None
  /\ ~ recursesIntoChildren(tagNameOrEmpty(Top.element))
  /\ Return(convertLeaf(Top.element, tagNameOrEmpty(Top.element)))
  /\ UNCHANGED <<doc, snapshot, result>>

\* convert_to_markdown.js:103-117: a container or unrecognized tag starts its loop
EnterLoop ==
  /\ pc = "walking"
  /\ Top.i = 0
  /\ earlyReturn(Top.element) = None
  /\ recursesIntoChildren(tagNameOrEmpty(Top.element))
  /\ stack' = [stack EXCEPT ![Len(stack)].i = 1]
  /\ UNCHANGED <<doc, pc, snapshot, result, acc>>

\* convert_to_markdown.js:110 and 116: htmlToMarkdown(child)
CallChild ==
  /\ pc = "walking"
  /\ Top.i >= 1
  /\ Top.i <= Len(childNodes(Top.element))
  /\ stack' = Append(stack, Frame(childNodes(Top.element)[Top.i]))
  /\ UNCHANGED <<doc, pc, snapshot, result, acc>>

\* convert_to_markdown.js:120: the loop is over, return markdown
ReturnLoop ==
  /\ pc = "walking"
  /\ Top.i >= 1
  /\ Top.i > Len(childNodes(Top.element))
  /\ Return(Top.markdown)
  /\ UNCHANGED <<doc, snapshot, result>>

\* convert_to_markdown.js:176-182: clean up and return the result
Finish ==
  /\ pc = "returned"
  /\ result' = Some([title |-> DocumentTitle, content |-> cleanUp(acc),
                     url |-> LocationHref])
  /\ pc' = "rendered"
  /\ UNCHANGED <<doc, snapshot, stack, acc>>

NextWalk ==
  \/ Begin
  \/ ReturnEarly
  \/ ReturnLeaf
  \/ EnterLoop
  \/ CallChild
  \/ ReturnLoop
  \/ Finish

(***************************************************************************)
(* Documents whose elements differ in computed style and geometry.         *)
(***************************************************************************)
Styled(tag, display, visibility, opacity, width, height) ==
  [ElementNode(tag) EXCEPT !.display = display, !.visibility = visibility,
                           !.opacity = opacity, !.width = width, !.height = height]

StyleKinds(tag) ==
  { Styled(tag, "block", "visible", "1", 2, 3),
    Styled(tag, "none", "visible", "1", 0, 0),
    Styled(tag, "block", "hidden", "1", 2, 3),
    Styled(tag, "block", "visible", "0", 2, 3),
    Styled(tag, "block", "visible", "1", 0, 3),
    Styled(tag, "block", "visible", "1", 2, 0),
    Styled(tag, "block", "visible", "1", 0, 0) }

VisibilityDocs(n) ==
  { WithIds(d) : d \in TreesOfSize(StyleKinds("BODY"),
                                 Uniform({"BODY", "DIV", "SCRIPT"},
                                         StyleKinds("DIV") \cup {ElementNode("SCRIPT")}),
                                 n) }

InitVisibility ==
  /\ \E n \in 0..MaxStyledNodes : doc \in VisibilityDocs(n)
  /\ Idle

SpecVisibility == InitVisibility /\ [][NextExtract]_vars

(***************************************************************************)
(* Reading an extractor output.                                            *)
(***************************************************************************)
RECURSIVE OutDepth(_)
OutDepth(node) ==
  IF node.children = <<>> THEN 0
  ELSE 1 + (CHOOSE m \in {OutDepth(node.children[i]) : i \in 1..Len(node.children)} :
              \A k \in {OutDepth(node.children[i]) : i \in 1..Len(node.children)} : m >= k)

\* every node of an output tree, with its depth
RECURSIVE OutNodes(_, _)
OutNodes(node, depth) ==
  {[node |-> node, depth |-> depth]}
    \cup UNION { OutNodes(node.children[i], depth + 1) : i \in 1..Len(node.children) }

Extracted == pc = "extracted"

\* the script returned a node, not null
HasRoot == snapshot[1].root # None

OutRoot == snapshot[1].root[1]

OutMaxDepth == snapshot[1].maxDepth

\* the output nodes of a document with a body, each naming its element by id
Emitted == OutNodes(OutRoot, 0)

EmittedAt(n) == { o \in Emitted : o.node.attributes["id"] = n }

Elements == { n \in Nodes : IsElement(n) }

RECURSIVE UnderSkippedTag(_)
\* n or one of its ancestors has an excluded tag
UnderSkippedTag(n) ==
  \/ tagOf(n) \in {"script", "style", "noscript", "meta", "link"}
  \/ (doc[n].parent # 0 /\ UnderSkippedTag(doc[n].parent))

MaxOf(S) == CHOOSE m \in S : \A k \in S : m >= k

\* depth of the element tree below body
InputDepth == MaxOf({ DepthOf(n) : n \in Elements })

\* depth of the element tree once excluded elements and their subtrees are removed
KeptDepth == MaxOf({ DepthOf(n) : n \in { e \in Elements : ~ UnderSkippedTag(e) } })

NodeFields ==
  {"tag_name", "attributes", "text_content", "children", "is_visible",
   "is_interactive", "bounding_box"}

\* an output node with every field, describing element n
CompleteFor(o, n) ==
  /\ DOMAIN o = NodeFields
  /\ o.tag_name = tagOf(n)
  /\ o.attributes = doc[n].attributes
  /\ o.is_interactive = FALSE

(***************************************************************************)
(* C1.  As stated: the output depth equals the input tree's depth when     *)
(* that depth is <= D and is D otherwise; every output node lies at depth  *)
(* <= D, every element at depth <= D is emitted as a complete node, every  *)
(* element at depth > D is omitted.  (Fails: an excluded element can be    *)
(* the deepest one, or lie within the limit.)                              *)
(***************************************************************************)
C1_AsStated ==
  (Extracted /\ doc # <<>>) =>
    /\ HasRoot
    /\ OutDepth(OutRoot) = (IF InputDepth <= OutMaxDepth THEN InputDepth ELSE OutMaxDepth)
    /\ \A o \in Emitted : o.depth <= OutMaxDepth
    /\ \A n \in Elements :
         IF DepthOf(n) <= OutMaxDepth
           THEN \E o \in EmittedAt(n) : o.depth = DepthOf(n) /\ CompleteFor(o.node, n)
           ELSE EmittedAt(n) = {}

(***************************************************************************)
(* C1, amended.  Depths are measured on the input tree without its         *)
(* excluded elements and their subtrees: the output depth is the smaller   *)
(* of D and that depth; every output node lies at depth <= D and is a      *)
(* complete node at the depth of its element; every non-excluded element   *)
(* at depth <= D is emitted, every element at depth > D is omitted.        *)
(***************************************************************************)
C1_DepthCut ==
  (Extracted /\ doc # <<>>) =>
    /\ HasRoot
    /\ OutDepth(OutRoot) = Min(KeptDepth, OutMaxDepth)
    /\ \A o \in Emitted :
         /\ o.depth <= OutMaxDepth
         /\ o.node.attributes["id"] \in Elements
         /\ o.depth = DepthOf(o.node.attributes["id"])
         /\ CompleteFor(o.node, o.node.attributes["id"])
    /\ \A n \in Elements :
         /\ (DepthOf(n) <= OutMaxDepth /\ ~ UnderSkippedTag(n)) => EmittedAt(n) # {}
         /\ DepthOf(n) > OutMaxDepth => EmittedAt(n) = {}

\* a tree deeper than the limit was cut, with an element exactly at the limit
C1_Witness ==
  /\ Extracted
  /\ doc # <<>>
  /\ OutMaxDepth = 2
  /\ KeptDepth > OutMaxDepth
  /\ OutDepth(OutRoot) = 2
  /\ \E n \in Elements : DepthOf(n) = 3 /\ ~ UnderSkippedTag(n)

(***************************************************************************)
(* C2.  An element within the depth limit is in the output iff neither it  *)
(* nor an ancestor has an excluded tag, and it is there once; the children *)
(* of each output node are the emitted element children of its element,    *)
(* in document order.                                                      *)
(***************************************************************************)
C2_ExcludedTags ==
  (Extracted /\ doc # <<>>) =>
    /\ HasRoot
    /\ \A n \in Elements :
         DepthOf(n) <= OutMaxDepth =>
           /\ (EmittedAt(n) # {}) <=> ~ UnderSkippedTag(n)
           /\ Cardinality(EmittedAt(n)) <= 1
    /\ \A o \in Emitted :
         LET kept == SelectSeq(children(o.node.attributes["id"]),
                               LAMBDA c : EmittedAt(c) # {})
         IN /\ Len(o.node.children) = Len(kept)
            /\ \A i \in 1..Len(kept) : o.node.children[i].attributes["id"] = kept[i]

\* an excluded element with a non-excluded child inside the limit was dropped
\* next to emitted siblings
C2_Witness ==
  /\ Extracted
  /\ doc # <<>>
  /\ \E n, m \in Elements :
        /\ tagOf(n) \in {"script", "style", "noscript", "meta", "link"}
        /\ doc[m].parent = n
        /\ tagOf(m) = "div"
        /\ DepthOf(m) <= OutMaxDepth
        /\ EmittedAt(m) = {}
  /\ Len(OutRoot.children) >= 1
  /\ \E n \in Elements : tagOf(n) = "iframe" /\ EmittedAt(n) # {}

(***************************************************************************)
(* C3.  Every node of every extractor output: marked visible, it carries   *)
(* a box of positive width and height; marked not visible (the fallback    *)
(* node of a document without a body included), it carries no box.         *)
(***************************************************************************)
HasBox(o) == "bounding_box" \in DOMAIN o /\ o.bounding_box # None

C3_VisibleBox ==
  Extracted =>
    /\ HasRoot
    /\ \A o \in Emitted :
      IF o.node.is_visible
        THEN /\ HasBox(o.node)
             /\ o.node.bounding_box[1].width > 0
             /\ o.node.bounding_box[1].height > 0
        ELSE ~ HasBox(o.node)

\* one output holds a visible node with its box, a style-visible node of zero
\* area and a node hidden by style
C3_Witness ==
  /\ Extracted
  /\ doc # <<>>
  /\ \E o \in Emitted : o.node.is_visible /\ HasBox(o.node)
  /\ \E o \in Emitted :
        LET n == o.node.attributes["id"]
        IN /\ ~ o.node.is_visible
           /\ doc[n].display = "block" /\ doc[n].visibility = "visible"
           /\ doc[n].opacity = "1" /\ doc[n].width = 0
  /\ \E o \in Emitted : ~ o.node.is_visible /\ doc[o.node.attributes["id"]].opacity = "0"

(***************************************************************************)
(* Documents of block elements and text with newlines, for the clean-up.   *)
(***************************************************************************)
CleanKinds ==
  {ElementNode(t) : t \in {"DIV", "P", "BR", "HR", "PRE", "H2"}}
    \cup {TextNode(<<"a">>), TextNode(<<" ", "\n">>), TextNode(<<"a", "\n", "\n", "\n", "a">>)}

CleanDocs(n) ==
  TreesOfSize({ElementNode("BODY")},
            Uniform({"BODY", "DIV", "P", "BR", "HR", "PRE", "H2"}, CleanKinds), n)

InitClean ==
  /\ \E n \in 0..MaxTreeNodes : doc \in CleanDocs(n)
  /\ Idle

SpecClean == InitClean /\ [][NextRender]_vars

Content == result[1].content

\* s holds three newline characters in a row
HasNewlineRun3(s) ==
  \E i \in 1..(Len(s) - 2) : s[i] = "\n" /\ s[i + 1] = "\n" /\ s[i + 2] = "\n"

(***************************************************************************)
(* C4.  The returned content holds no run of three or more newline         *)
(* characters and neither starts nor ends with whitespace.                 *)
(***************************************************************************)
C4_CleanContent ==
  Rendered =>
    /\ ~ HasNewlineRun3(Content)
    /\ Content # <<>> =>
         (~ IsWhitespace(Content[1]) /\ ~ IsWhitespace(Content[Len(Content)]))

\* the markdown before the clean-up had a run of three newlines between text
\* and whitespace at both ends
C4_Witness ==
  /\ Rendered
  /\ LET raw == htmlToMarkdown(contentElement)
     IN /\ HasNewlineRun3(TrimEnd(raw))
        /\ IsWhitespace(raw[1])
        /\ IsWhitespace(raw[Len(raw)])
  /\ Content # <<>>

(***************************************************************************)
(* Documents of tables: rows with header and data cells, rows without      *)
(* cells, header cells outside any row, and tables nested in data cells.   *)
(***************************************************************************)
TableGrammar ==
  [BODY |-> {ElementNode("TABLE")},
   TABLE |-> {ElementNode("TR"), ElementNode("TH")},
   TR |-> {ElementNode("TH"), ElementNode("TD")},
   TH |-> {TextNode(<<"a">>)},
   TD |-> {TextNode(<<"a">>), ElementNode("TABLE")}]

TableDocs(n) == TreesOfSize({ElementNode("BODY")}, TableGrammar, n)

InitTable ==
  /\ \E n \in 0..MaxTableNodes : doc \in TableDocs(n)
  /\ Idle

SpecTable == InitTable /\ [][NextRender]_vars

Tables == { n \in Nodes : IsElement(n) /\ tagOf(n) = "table" }

RowsOf(t) == querySelectorAll(t, {"tr"})

HasHeaderCell(t) == querySelectorAll(t, {"th"}) # <<>>

\* the lines of a rendering, each ended by a newline
LinesOf(s) == IF s = <<>> THEN <<>> ELSE Split(SubSeq(s, 1, Len(s) - 1), "\n")

\* | --- | ... | with k columns
SeparatorLine(k) ==
  <<"|", " ">> \o Join([i \in 1..k |-> <<"-", "-", "-">>], <<" ", "|", " ">>) \o <<" ", "|">>

IsSeparatorRow(line) == \E k \in 1..Len(line) : line = SeparatorLine(k)

SeparatorRows(s) == { i \in 1..Len(LinesOf(s)) : IsSeparatorRow(LinesOf(s)[i]) }

(***************************************************************************)
(* C5.  As stated: a table with a header cell anywhere renders with        *)
(* exactly one separator row | --- | ... |, right after the first row; a   *)
(* table without header cell renders with none; a table without rows       *)
(* renders as the empty string.  (Fails: a header cell outside any row,    *)
(* and a first row without cells.)                                         *)
(***************************************************************************)
C5_AsStated ==
  Rendered => \A t \in Tables :
    LET out == convertTable(t) IN
      /\ HasHeaderCell(t) => SeparatorRows(out) = {2}
      /\ ~ HasHeaderCell(t) => SeparatorRows(out) = {}
      /\ RowsOf(t) = <<>> => out = <<>>

(***************************************************************************)
(* C5, amended.  For a table with at least one row: with a header cell     *)
(* anywhere, the rendering is one line per row plus exactly one separator  *)
(* line, which comes right after the first row and holds one --- per cell  *)
(* of the first row; without header cell it is one line per row and no     *)
(* separator.  A table without rows renders as the empty string, header    *)
(* cells or not.  The table rule ends every rendering with two newlines.   *)
(***************************************************************************)
C5_Separator ==
  Rendered => \A t \in Tables :
    LET out == convertTable(t)
        rows == RowsOf(t)
        firstCells == Len(querySelectorAll(rows[1], {"th", "td"}))
    IN IF rows = <<>> THEN out = <<>> /\ htmlToMarkdown(t) = <<"\n", "\n">>
       ELSE /\ out[Len(out)] = "\n"
            /\ htmlToMarkdown(t) = out \o <<"\n", "\n">>
            /\ IF HasHeaderCell(t)
                 THEN /\ Len(LinesOf(out)) = Len(rows) + 1
                      /\ LinesOf(out)[2] = SeparatorLine(firstCells)
                      /\ SeparatorRows(out) = (IF firstCells > 0 THEN {2} ELSE {})
                 ELSE /\ Len(LinesOf(out)) = Len(rows)
                      /\ SeparatorRows(out) = {}

\* a rendered table of two rows whose header cell is in the second row, and
\* a table without header cell
C5_Witness ==
  /\ Rendered
  /\ \E t \in Tables :
        /\ Len(RowsOf(t)) >= 2
        /\ HasHeaderCell(t)
        /\ querySelectorAll(RowsOf(t)[1], {"th"}) = <<>>
        /\ querySelectorAll(RowsOf(t)[1], {"td"}) # <<>>
        /\ SeparatorRows(convertTable(t)) = {2}
  /\ \E t \in Tables : ~ HasHeaderCell(t) /\ RowsOf(t) # <<>>

(***************************************************************************)
(* Counting the characters of text nodes in an output.                     *)
(***************************************************************************)
\* the characters text nodes are made of, apart from whitespace; no rule of
\* the renderer emits them as markup
Letters == {"a", "b"}

RECURSIVE CountOf(_, _)
CountOf(c, s) ==
  IF s = <<>> THEN 0 ELSE (IF Head(s) = c THEN 1 ELSE 0) + CountOf(c, Tail(s))

TextNodes == { n \in Nodes : IsText(n) }

RECURSIVE SumOver(_, _)
SumOver(S, c) ==
  IF S = {} THEN 0
  ELSE LET n == CHOOSE x \in S : TRUE
       IN CountOf(c, doc[n].data) + SumOver(S \ {n}, c)

(***************************************************************************)
(* C9.  As stated: each text node's content reaches the output at most     *)
(* once, so no letter occurs more often in the content than in the text    *)
(* nodes of the document.  (Fails for a table nested in a cell.)           *)
(***************************************************************************)
C9_AsStated ==
  Rendered => \A c \in Letters : CountOf(c, Content) <= SumOver(TextNodes, c)

(***************************************************************************)
(* Documents of lists: items, other element children, nested lists.        *)
(***************************************************************************)
ListGrammar ==
  [BODY |-> {ElementNode("UL"), ElementNode("OL")},
   UL |-> {ElementNode("LI"), ElementNode("DIV")},
   OL |-> {ElementNode("LI"), ElementNode("DIV")},
   LI |-> {TextNode(<<"a">>), TextNode(<<"b">>), ElementNode("UL")},
   DIV |-> {TextNode(<<"a">>)}]

ListDocs(n) == TreesOfSize({ElementNode("BODY")}, ListGrammar, n)

InitList ==
  /\ \E n \in 0..MaxListNodes : doc \in ListDocs(n)
  /\ Idle

SpecList == InitList /\ [][NextRender]_vars

Lists == { n \in Nodes : IsElement(n) /\ tagOf(n) \in {"ul", "ol"} }

ItemsOf(e) == SelectSeq(children(e), LAMBDA c : tagOf(c) = "li")

(***************************************************************************)
(* C6.  As stated: a ul/ol renders as one line per list-item child, in     *)
(* document order, each the prefix and the item's flattened text; the      *)
(* prefix is "- " in a ul and "k. " for the k-th list-item child of an ol  *)
(* (1, 2, ..., n without gaps); one blank line ends the list.  (Fails:     *)
(* the number is the position among all element children.)                 *)
(***************************************************************************)
C6_AsStated ==
  Rendered =>
    \A e \in Lists :
      htmlToMarkdown(e) =
        Concat([k \in 1..Len(ItemsOf(e)) |->
                  (IF tagOf(e) = "ol" THEN NumberToString(k) \o <<".", " ">>
                                      ELSE <<"-", " ">>)
                    \o getTextContent(ItemsOf(e)[k]) \o <<"\n">>])
          \o <<"\n">>

(***************************************************************************)
(* Documents of paragraphs with nested inline elements, code blocks and    *)
(* non-content elements holding text.                                      *)
(***************************************************************************)
FlatGrammar ==
  [BODY |-> {ElementNode("P"), ElementNode("PRE"), ElementNode("IFRAME")},
   P |-> {ElementNode("B"), ElementNode("IFRAME"), ElementNode("SCRIPT"),
          TextNode(<<"a">>), TextNode(<<" ", "b", " ">>)},
   B |-> {TextNode(<<"a">>), TextNode(<<" ", "b", " ">>)},
   PRE |-> {ElementNode("SCRIPT"), TextNode(<<"a">>)},
   IFRAME |-> {TextNode(<<" ", "b", " ">>)},
   SCRIPT |-> {TextNode(<<" ", "b", " ">>)}]

FlatDocs(n) == TreesOfSize({ElementNode("BODY")}, FlatGrammar, n)

InitFlat ==
  /\ \E n \in 0..MaxFlatNodes : doc \in FlatDocs(n)
  /\ Idle

SpecFlat == InitFlat /\ [][NextRender]_vars

\* the elements rendered through their flattened text
FlattenRuleTags ==
  DOMAIN HeadingLevel \cup
    {"p", "strong", "b", "em", "i", "code", "a", "li", "blockquote", "th", "td"}

Flattened == { n \in Nodes : IsElement(n) /\ tagOf(n) \in FlattenRuleTags }

\* n lies below e, inside an element below e with one of the tags
RECURSIVE HiddenBelow(_, _, _)
HiddenBelow(n, e, tags) ==
  /\ doc[n].parent # e
  /\ doc[n].parent # 0
  /\ \/ tagOf(doc[n].parent) \in tags
     \/ HiddenBelow(doc[n].parent, e, tags)

\* the descendant text nodes of e outside script/style/noscript subtrees
FlatTexts(e) ==
  SelectSeq(Descendants(e),
            LAMBDA n : IsText(n) /\ ~ HiddenBelow(n, e, {"script", "style", "noscript"}))

StripWhitespace(s) == SelectSeq(s, LAMBDA c : ~ IsWhitespace(c))

\* s arises from t by deleting characters
RECURSIVE IsSubsequence(_, _)
IsSubsequence(s, t) ==
  IF s = <<>> THEN TRUE
  ELSE IF t = <<>> THEN FALSE
  ELSE IF Head(s) = Head(t) THEN IsSubsequence(Tail(s), Tail(t))
  ELSE IsSubsequence(s, Tail(t))

(***************************************************************************)
(* C7.  As stated: the flattened text of an element is its descendant      *)
(* text nodes outside script/style/noscript, each trimmed, the non-empty   *)
(* pieces joined by one space.  (Fails: pieces are concatenated as they    *)
(* are, so a<b>a</b> flattens to aa.)                                      *)
(***************************************************************************)
C7_AsStated ==
  Rendered =>
    \A e \in Flattened :
      getTextContent(e) =
        Join(SelectSeq([i \in 1..Len(FlatTexts(e)) |-> Trim(doc[FlatTexts(e)[i]].data)],
                       LAMBDA t : t # <<>>),
             <<" ">>)

(***************************************************************************)
(* C7, amended.  The flattened text of an element is the concatenation in  *)
(* document order of its descendant text nodes outside                     *)
(* script/style/noscript subtrees, from which only whitespace has been     *)
(* removed: it has the same non-whitespace characters in the same order,   *)
(* adds no character (no separator, no Markdown marker) and neither        *)
(* starts nor ends with whitespace; a paragraph renders as its flattened   *)
(* text and a blank line.                                                  *)
(***************************************************************************)
C7_Flattened ==
  Rendered =>
    \A e \in Flattened :
      LET flat == getTextContent(e)
          raw == Concat([i \in 1..Len(FlatTexts(e)) |-> doc[FlatTexts(e)[i]].data])
      IN /\ StripWhitespace(flat) = StripWhitespace(raw)
         /\ IsSubsequence(flat, raw)
         /\ Trim(flat) = flat
         /\ tagOf(e) = "p" => htmlToMarkdown(e) = flat \o <<"\n", "\n">>

\* a rendered paragraph holding text, a bold element with text and a script
\* with text: the content is the flattened text
C7_Witness ==
  /\ Rendered
  /\ \E p, b, sc \in Nodes :
        /\ IsElement(p) /\ tagOf(p) = "p" /\ doc[p].parent = Body
        /\ IsElement(b) /\ tagOf(b) = "b" /\ doc[b].parent = p
        /\ IsElement(sc) /\ tagOf(sc) = "script" /\ doc[sc].parent = p
        /\ \E t \in TextNodes : doc[t].parent = sc
        /\ \E t \in TextNodes : doc[t].parent = b /\ doc[t].data = <<" ", "b", " ">>
        /\ \E t \in TextNodes : doc[t].parent = p /\ t < b
        /\ Content = getTextContent(p)
        /\ Content = <<"a", "b">>

\* the text nodes of the content root's subtree outside every non-content element
ContentTexts ==
  { n \in TextNodes :
      /\ (n = contentElement \/ IsAncestor(contentElement, n))
      /\ ~ HiddenBelow(n, 0, RendererSkipTags) }

(***************************************************************************)
(* C8.  As stated: no text inside a script, style, noscript, meta, link    *)
(* or iframe element reaches the content, so every letter of the content   *)
(* occurs in a text node outside those elements.  (Fails for an iframe in  *)
(* a paragraph and for a script in a code block.)                          *)
(***************************************************************************)
C8_AsStated ==
  Rendered =>
    \A c \in Letters :
      CountOf(c, Content) > 0 => \E n \in ContentTexts : CountOf(c, doc[n].data) > 0

(***************************************************************************)
(* Documents of unrecognized tags, content roots, links and images with    *)
(* and without attributes, comments; and the document without a body.      *)
(***************************************************************************)
WithAttributes(tag, attributes) == [ElementNode(tag) EXCEPT !.attributes = attributes]

RoleMainDiv == WithAttributes("DIV", [role |-> <<"m", "a", "i", "n">>])

LinkWithHref == WithAttributes("A", [href |-> <<"/", "x">>])

WalkGrammar ==
  [BODY |-> {ElementNode("FOO"), ElementNode("ARTICLE"), ElementNode("MAIN"),
             RoleMainDiv, ElementNode("A"), ElementNode("IMG"),
             TextNode(<<"a">>), CommentNode(<<"b">>)},
   FOO |-> {ElementNode("FOO"), ElementNode("ARTICLE"), ElementNode("A"),
            LinkWithHref, ElementNode("LI"), TextNode(<<"a">>), CommentNode(<<"b">>)},
   ARTICLE |-> {ElementNode("FOO"), ElementNode("MAIN"), TextNode(<<"a">>)},
   MAIN |-> {ElementNode("FOO"), TextNode(<<"a">>)},
   DIV |-> {ElementNode("FOO"), ElementNode("ARTICLE"), TextNode(<<"a">>)},
   A |-> {TextNode(<<"a">>)},
   IMG |-> {},
   LI |-> {TextNode(<<"a">>)}]

WalkDocs(n) == TreesOfSize({ElementNode("BODY")}, WalkGrammar, n)

InitWalk ==
  /\ \E n \in 0..MaxWalkNodes : doc \in WalkDocs(n)
  /\ Idle

\* the script runs to completion once evaluated: no step of it waits
SpecWalk == InitWalk /\ [][NextWalk]_vars /\ WF_vars(NextWalk)

ResultFields == {"title", "content", "url"}

\* the elements whose tag has no case in the switch
Unrecognized ==
  { n \in Nodes :
      /\ IsElement(n)
      /\ tagOf(n) \notin RendererSkipTags
      /\ tagOf(n) \notin
           (DOMAIN HeadingLevel \cup
            {"p", "br", "hr", "strong", "b", "em", "i", "code", "pre", "a", "img",
             "ul", "ol", "li", "blockquote", "table", "div", "article", "section",
             "main", "body"}) }

\* every call on the stack is a call on a node of the document (or on null,
\* for the outermost call of a document without a content root)
WalkOk ==
  pc = "walking" =>
    /\ stack # <<>>
    /\ \A k \in 1..Len(stack) :
         /\ stack[k].element \in Nodes \cup {0}
         /\ stack[k].element = 0 => k = 1
         /\ k > 1 => doc[stack[k].element].parent = stack[k - 1].element

C10_NoRootWitness ==
  /\ Rendered
  /\ doc = <<>>
  /\ Content = <<>>

====
